---- MODULE Spec2Model ----
(***************************************************************************)
(* Model of telegramDownloader_topic.py: main() and the bounded-concurrency *)
(* batch of download_media_message tasks it launches on the asyncio event  *)
(* loop (one thread; a task runs until it suspends at an await).           *)
(***************************************************************************)
EXTENDS Integers, Sequences, FiniteSets, TLC

\* ------------------------------------------------------------------ bounds
MaxHist == 3      \* records the history provider yields at most
MaxConc == 2      \* largest --concurrency tried
MaxSkip == 3      \* largest --skip tried
MaxLimit == 2     \* largest --limit tried
MaxBytes == 3     \* largest byte count the transport reports

\* ------------------------------------------------- program constants
PadWidth == 4     \* f"{index:04d}_"

\* ---------------------------------------------------------------- inputs
MsgKinds == {"none", "doc", "photo"}
\* a fetched record of kind k; documents of one chat may all carry the same name
Record(n, k) == [id |-> n, kind |-> k, name |-> IF k = "doc" THEN "a" ELSE ""]
\* argparse type=int accepts zero and negative values as well
ConcValues == -1..MaxConc
SkipValues == 0..MaxSkip
\* --limit: <<>> is None (flag absent), <<n>> is the value n
LimitValues == {<<>>} \cup {<<n>> : n \in 0..MaxLimit}

VARIABLES
  api_id, api_hash,                \* module configuration (lines 36-37)
  args,                            \* parse_args() result
  mpc, mres,                       \* main(): position, and how it ended
  client, disconnects,             \* TelegramClient state, disconnect() calls
  exitCode,                        \* process exit code, -1 while running
  fetched,                         \* records yielded by iter_messages so far
  messages,                        \* main's `messages` list
  unwindowed,                      \* the list before line 190 rebinds it
  total_messages, start, end,      \* main's locals (lines 187-189)
  total_bytes,                     \* main's local (line 198), -1 before
  sem,                             \* asyncio.Semaphore: made, value, waiters
  tasks,                           \* the download tasks, in launch order
  ready,                           \* event loop's FIFO of ready handles
  running,                         \* task executing between awaits, 0 if none
  gather,                          \* asyncio.gather state
  printed, errLog,                 \* stdout: message tags, failed message ids
  dirExists, disk,                 \* output directory, files by path
  probe,                           \* inputs and results of the naming functions
  interrupt,                       \* SIGINT: "none", or what main_task.cancel() did
  bars                             \* progress bars and their callbacks' state

\* what no step of main() or of a task writes
cfgVars == <<api_id, api_hash, probe, interrupt, bars>>
mainVars == <<args, mpc, mres, client, disconnects, exitCode>>
fetchVars == <<fetched, messages, unwindowed, total_messages, start, end, total_bytes>>
batchVars == <<sem, tasks, ready, running, gather>>
envVars == <<printed, errLog, dirExists, disk>>
vars == <<cfgVars, mainVars, fetchVars, batchVars, envVars>>

\* ------------------------------------------------------------ pure helpers
Min(S) == CHOOSE x \in S : \A y \in S : x <= y
Max(S) == CHOOSE x \in S : \A y \in S : x >= y

RECURSIVE SumSeq(_)
SumSeq(s) == IF s = <<>> THEN 0 ELSE Head(s) + SumSeq(Tail(s))

Digit(d) ==
  CASE d = 0 -> "0" [] d = 1 -> "1" [] d = 2 -> "2" [] d = 3 -> "3" [] d = 4 -> "4"
    [] d = 5 -> "5" [] d = 6 -> "6" [] d = 7 -> "7" [] d = 8 -> "8" [] d = 9 -> "9"

\* str(n) for n >= 0
RECURSIVE DecStr(_)
DecStr(n) == IF n < 10 THEN Digit(n) ELSE DecStr(n \div 10) \o Digit(n % 10)

RECURSIVE NumDigits(_)
NumDigits(n) == IF n < 10 THEN 1 ELSE 1 + NumDigits(n \div 10)

RECURSIVE Zeros(_)
Zeros(k) == IF k <= 0 THEN "" ELSE "0" \o Zeros(k - 1)

\* format(n, "04d"): sign first, then zeros up to the total width, then digits;
\* never truncates
Format04d(n) ==
  IF n >= 0
    THEN Zeros(PadWidth - NumDigits(n)) \o DecStr(n)
    ELSE "-" \o Zeros(PadWidth - 1 - NumDigits(-n)) \o DecStr(-n)

\* Python's s[a:b] on a list of length Len(s), a and b any integers
PySliceBound(i, n) == IF i < 0 THEN Max({i + n, 0}) ELSE Min({i, n})
PySlice(s, a, b) ==
  LET lo == PySliceBound(a, Len(s))
      hi == PySliceBound(b, Len(s))
  IN  IF lo >= hi THEN <<>> ELSE SubSeq(s, lo + 1, hi)

\* ------------------------------------------------------- message accessors
\* message.media is truthy
HasMedia(m) == m.kind # "none"
\* message.document (a document payload) is present
HasDocument(m) == m.kind = "doc"
\* the file_name of the first attribute that has one; "" when there is none
AttrFileName(m) == IF m.kind = "doc" THEN m.name ELSE ""
DocumentSize(m) == m.id + 1
\* photo.sizes: the second message's photo carries none; elsewhere a stripped
\* thumbnail without a size attribute (getattr default 0), then two resolutions
PhotoSizes(m) == IF m.id = 2 THEN <<>> ELSE <<0, m.id + 2, 1>>

get_media_size(m) ==
  IF HasMedia(m)
    THEN IF HasDocument(m) THEN DocumentSize(m)
         ELSE IF m.kind = "photo" /\ PhotoSizes(m) # <<>>
           THEN Max({PhotoSizes(m)[i] : i \in 1..Len(PhotoSizes(m))})
           ELSE 0
    ELSE 0

\* faulty variant of Prefix: the rank is prepended without the separator
PrefixNoSeparator(index) == Format04d(index)

\* lines 75-88: suggested name or media_<id>, behind the rank prefix
Prefix(index) == Format04d(index) \o "_"
BaseName(m) ==
  IF HasDocument(m) /\ AttrFileName(m) # "" THEN AttrFileName(m)
  ELSE "media_" \o DecStr(m.id)
FileName(m, index) == Prefix(index) \o BaseName(m)
\* line 92: os.path.join(output_dir, file_name)
FilePath(m, index) == "downloads/" \o FileName(m, index)

\* faulty variant of WindowEnd: the limit is taken as an end index, not a count
WindowEndNoStart(a, total) == IF a.limit # <<>> THEN a.limit[1] ELSE total

\* lines 188-190
WindowStart(a) == a.skip
WindowEnd(a, total) == IF a.limit # <<>> THEN WindowStart(a) + a.limit[1] ELSE total
Window(msgs, a) == PySlice(msgs, WindowStart(a), WindowEnd(a, Len(msgs)))

\* faulty variant of TaskIndex: enumerate(messages, start=start), a 0-based rank
TaskIndexZeroBased(st, i) == st + (i - 1)

\* line 216: enumerate(messages, start=start+1); i is the 1-based position
TaskIndex(st, i) == st + 1 + (i - 1)

\* ---------------------------------------------------------------- Init
NoTasks == <<>>
NewGather == [nfuts |-> 0, nfinished |-> 0, outer |-> "none"]
NoSem == [made |-> FALSE, value |-> 0, waiters |-> <<>>]

NoProbe == [pc |-> "off"]

\* everything but the configuration, before main() starts
InitProgram ==
  /\ args = [concurrency |-> 4, skip |-> 0, limit |-> <<>>]
  /\ mpc = "parse_args"
  /\ mres = "none"
  /\ client = "none"
  /\ disconnects = 0
  /\ exitCode = -1
  /\ fetched = 0
  /\ messages = <<>>
  /\ unwindowed = <<>>
  /\ total_messages = 0
  /\ start = 0
  /\ end = 0
  /\ total_bytes = -1
  /\ sem = NoSem
  /\ tasks = NoTasks
  /\ ready = <<>>
  /\ running = 0
  /\ gather = NewGather
  /\ printed = {}
  /\ errLog = {}
  /\ dirExists = FALSE
  /\ disk = <<>>
  /\ interrupt = "none"

Init ==
  /\ api_id \in {0, 12345678}
  /\ api_hash \in {"", "hash"}
  /\ probe = NoProbe
  /\ bars = <<>>
  /\ InitProgram

\* ------------------------------------------------------- main(), pre-batch
\* print an error/notice, await client.disconnect(), return
DisconnectAndReturn(tag) ==
  /\ printed' = printed \cup {tag}
  /\ client' = "disconnected"
  /\ disconnects' = disconnects + 1
  /\ mpc' = "main_done"
  /\ mres' = "returned"

\* line 125
ParseArgs ==
  /\ mpc = "parse_args"
  /\ \E c \in ConcValues, s \in SkipValues, l \in LimitValues :
       args' = [concurrency |-> c, skip |-> s, limit |-> l]
  /\ mpc' = "check_credentials"
  /\ UNCHANGED <<cfgVars, mres, client, disconnects, exitCode, fetchVars, batchVars, envVars>>

\* lines 127-132
CheckCredentials ==
  /\ mpc = "check_credentials"
  /\ IF api_id = 0 \/ api_hash = ""
       THEN /\ printed' = printed \cup {"error_credentials"}
            /\ mpc' = "main_done"
            /\ mres' = "sys_exit_1"
            /\ client' = client
       ELSE /\ client' = "created"
            /\ mpc' = "connect"
            /\ UNCHANGED <<printed, mres>>
  /\ UNCHANGED <<cfgVars, args, disconnects, exitCode, fetchVars, batchVars, errLog, dirExists, disk>>

\* lines 133-138
Connect ==
  /\ mpc = "connect"
  /\ \E ok \in BOOLEAN :
       IF ok
         THEN /\ client' = "started"
              /\ mpc' = "get_entity"
              /\ UNCHANGED <<printed, disconnects, mres>>
         ELSE DisconnectAndReturn("error_connect")
  /\ UNCHANGED <<cfgVars, args, exitCode, fetchVars, batchVars, errLog, dirExists, disk>>

\* lines 140-164
GetEntity ==
  /\ mpc = "get_entity"
  /\ \E r \in {"ok", "RPCError", "ValueError", "Exception"} :
       IF r = "ok"
         THEN /\ mpc' = "fetch"
              /\ printed' = printed \cup {"fetching"}
              /\ UNCHANGED <<client, disconnects, mres>>
         ELSE DisconnectAndReturn("error_entity_" \o r)
  /\ UNCHANGED <<cfgVars, args, exitCode, fetchVars, batchVars, errLog, dirExists, disk>>

\* lines 168-175: one record yielded by iter_messages; kept if it has media
FetchNext ==
  /\ mpc = "fetch"
  /\ fetched < MaxHist
  /\ \E k \in MsgKinds :
       LET msg == Record(fetched + 1, k)
       IN  messages' = IF HasMedia(msg) THEN Append(messages, msg) ELSE messages
  /\ fetched' = fetched + 1
  /\ UNCHANGED <<cfgVars, mainVars, unwindowed, total_messages, start, end, total_bytes, batchVars, envVars>>

\* faulty variant of FetchFail: the error is reported, the partial list is kept
FetchFailKeepPartial ==
  /\ mpc = "fetch"
  /\ printed' = printed \cup {"error_fetch"}
  /\ mpc' = "window"
  /\ UNCHANGED <<cfgVars, args, mres, client, disconnects, exitCode, fetchVars, batchVars,
                 errLog, dirExists, disk>>

\* lines 176-179: the history walk raises
FetchFail ==
  /\ mpc = "fetch"
  /\ DisconnectAndReturn("error_fetch")
  /\ UNCHANGED <<cfgVars, args, exitCode, fetchVars, batchVars, errLog, dirExists, disk>>

\* lines 181-184: the walk is exhausted
FetchEnd ==
  /\ mpc = "fetch"
  /\ IF messages = <<>>
       THEN DisconnectAndReturn("no_media")
       ELSE /\ mpc' = "window"
            /\ UNCHANGED <<printed, client, disconnects, mres>>
  /\ UNCHANGED <<cfgVars, args, exitCode, fetchVars, batchVars, errLog, dirExists, disk>>

\* faulty variant of ApplyWindow: an empty window is handed on to the batch
ApplyWindowKeepEmpty ==
  /\ mpc = "window"
  /\ total_messages' = Len(messages)
  /\ start' = WindowStart(args)
  /\ end' = WindowEnd(args, Len(messages))
  /\ unwindowed' = messages
  /\ messages' = Window(messages, args)
  /\ mpc' = "preflight"
  /\ UNCHANGED <<printed, client, disconnects, mres>>
  /\ UNCHANGED <<cfgVars, args, exitCode, fetched, total_bytes, batchVars, errLog, dirExists, disk>>

\* lines 186-195
ApplyWindow ==
  /\ mpc = "window"
  /\ total_messages' = Len(messages)
  /\ start' = WindowStart(args)
  /\ end' = WindowEnd(args, Len(messages))
  /\ unwindowed' = messages
  /\ messages' = Window(messages, args)
  /\ IF messages' = <<>>
       THEN DisconnectAndReturn("no_media_after_window")
       ELSE /\ mpc' = "preflight"
            /\ UNCHANGED <<printed, client, disconnects, mres>>
  /\ UNCHANGED <<cfgVars, args, exitCode, fetched, total_bytes, batchVars, errLog, dirExists, disk>>

\* faulty variant of Preflight: the estimate is summed over the full list
PreflightFullList ==
  /\ mpc = "preflight"
  /\ total_bytes' = SumSeq([i \in 1..Len(unwindowed) |-> get_media_size(unwindowed[i])])
  /\ printed' = printed \cup {"total_size", "found"}
  /\ mpc' = "make_semaphore"
  /\ UNCHANGED <<cfgVars, args, mres, client, disconnects, exitCode, fetched, messages,
                 unwindowed, total_messages, start, end, batchVars, errLog, dirExists, disk>>

\* lines 197-209
Preflight ==
  /\ mpc = "preflight"
  /\ total_bytes' = SumSeq([i \in 1..Len(messages) |-> get_media_size(messages[i])])
  /\ printed' = printed \cup {"total_size", "found"}
  /\ mpc' = "make_semaphore"
  /\ UNCHANGED <<cfgVars, args, mres, client, disconnects, exitCode, fetched, messages,
                 unwindowed, total_messages, start, end, batchVars, errLog, dirExists, disk>>

\* ---------------------------------------------------- asyncio primitives
TaskHandle(t) == [k |-> "task", id |-> t]
CbHandle(t) == [k |-> "cb", id |-> t]
MainHandle == [k |-> "main", id |-> 0]

NewTask(m, idx) ==
  [pc |-> "created", index |-> idx, msg |-> m, file_name |-> "", result |-> "none",
   mustCancel |-> FALSE, cancelReq |-> FALSE, slot |-> FALSE, pbar |-> "none",
   fault |-> "none"]

TaskIds == 1..Len(tasks)
Terminal(t) == tasks[t].pc = "done"
AllTerminal == \A t \in TaskIds : Terminal(t)

\* The batch state the semaphore and the loop act on, as one record
Batch == [value |-> sem.value, waiters |-> sem.waiters, tasks |-> tasks, ready |-> ready]

\* faulty variant of Locked: the gate never reports itself full
LockedNever(B) == FALSE

\* Semaphore.locked(): no free slot, or a waiter that is not cancelled
Locked(B) ==
  \/ B.value = 0
  \/ \E i \in 1..Len(B.waiters) : B.tasks[B.waiters[i]].pc \in {"waiting", "granted"}

\* faulty variant of WakeUpNext: the slot goes to the last waiter still pending
WakeUpLast(B) ==
  IF {i \in 1..Len(B.waiters) : B.tasks[B.waiters[i]].pc = "waiting"} = {} THEN B
  ELSE LET t == B.waiters[Max({i \in 1..Len(B.waiters) : B.tasks[B.waiters[i]].pc = "waiting"})]
       IN  [B EXCEPT !.value = @ - 1,
                     !.tasks[t].pc = "granted",
                     !.tasks[t].slot = TRUE,
                     !.ready = Append(@, TaskHandle(t))]

\* Semaphore._wake_up_next(): hand a slot to the first waiter still pending
PendingWaiters(B) == {i \in 1..Len(B.waiters) : B.tasks[B.waiters[i]].pc = "waiting"}
WakeUpNext(B) ==
  IF PendingWaiters(B) = {} THEN B
  ELSE LET t == B.waiters[Min(PendingWaiters(B))]
       IN  [B EXCEPT !.value = @ - 1,
                     !.tasks[t].pc = "granted",
                     !.tasks[t].slot = TRUE,
                     !.ready = Append(@, TaskHandle(t))]

\* acquire()'s closing loop: while value > 0, wake the next waiter, if any
RECURSIVE WakeWhileFree(_)
WakeWhileFree(B) ==
  IF B.value > 0 /\ PendingWaiters(B) # {} THEN WakeWhileFree(WakeUpNext(B)) ELSE B

\* Semaphore.release(), as __aexit__ calls it on every exit of the block
SemRelease(B) == WakeUpNext([B EXCEPT !.value = @ + 1])

RemoveWaiter(ws, t) == SelectSeq(ws, LAMBDA w : w # t)

\* write a Batch record back to the variables
SetBatch(B) ==
  /\ sem' = [sem EXCEPT !.value = B.value, !.waiters = B.waiters]
  /\ tasks' = B.tasks
  /\ ready' = B.ready

\* Task.cancel() on a task that is not done
CancelTask(B, t) ==
  LET pc == B.tasks[t].pc
      C == [B EXCEPT !.tasks[t].cancelReq = TRUE]
  IN  CASE pc = "waiting" ->
             [C EXCEPT !.tasks[t].pc = "wait_cancelled", !.ready = Append(@, TaskHandle(t))]
        [] pc = "downloading" ->
             [C EXCEPT !.tasks[t].pc = "dl_cancelled", !.ready = Append(@, TaskHandle(t))]
        [] OTHER -> [C EXCEPT !.tasks[t].mustCancel = TRUE]

\* the loop is dispatching handles: main is suspended in gather, or has ended and
\* asyncio.run drains the loop once every remaining task was cancelled
ToCancel == {t \in TaskIds : ~Terminal(t) /\ ~tasks[t].cancelReq}
LoopRuns ==
  /\ running = 0
  /\ \/ mpc \in {"gather_wait", "main_done"}
     \/ mpc = "cancelling" /\ ToCancel = {}
NextHandle(h) == LoopRuns /\ ready # <<>> /\ Head(ready) = h

\* ------------------------------------------------------ main(), the batch
\* line 212: asyncio.Semaphore(value) raises ValueError when value < 0
MakeSemaphore ==
  /\ mpc = "make_semaphore"
  /\ IF args.concurrency < 0
       THEN /\ mpc' = "main_done"
            /\ mres' = "raised"
            /\ sem' = sem
       ELSE /\ sem' = [made |-> TRUE, value |-> args.concurrency, waiters |-> <<>>]
            /\ mpc' = "launch"
            /\ mres' = mres
  /\ UNCHANGED <<cfgVars, args, client, disconnects, exitCode, fetchVars,
                 tasks, ready, running, gather, envVars>>

\* lines 214-217: one task per windowed message, scheduled in list order
LaunchTasks ==
  /\ mpc = "launch"
  /\ tasks' = [i \in 1..Len(messages) |-> NewTask(messages[i], TaskIndex(start, i))]
  /\ ready' = [i \in 1..Len(messages) |-> TaskHandle(i)]
  /\ mpc' = "gather"
  /\ UNCHANGED <<cfgVars, args, mres, client, disconnects, exitCode, fetchVars,
                 sem, running, gather, envVars>>

\* line 218: gather registers its callback on every task; main suspends
AwaitGather ==
  /\ mpc = "gather"
  /\ gather' = [nfuts |-> Len(tasks), nfinished |-> 0, outer |-> "pending"]
  /\ mpc' = "gather_wait"
  /\ UNCHANGED <<cfgVars, args, mres, client, disconnects, exitCode, fetchVars,
                 sem, tasks, ready, running, envVars>>

\* faulty variant of GatherOuter: the join resolves on the first task that ends
GatherOuterFirstDone(g, result) ==
  IF g.outer # "pending" THEN g.outer
  ELSE IF result = "Cancelled" THEN "cancelled"
  ELSE IF result = "Raised" THEN "exception"
  ELSE "result"

\* gather's _done_callback for task t (return_exceptions is False)
GatherOuter(g, result) ==
  IF g.outer # "pending" THEN g.outer
  ELSE IF result = "Cancelled" THEN "cancelled"
  ELSE IF result = "Raised" THEN "exception"
  ELSE IF g.nfinished + 1 = g.nfuts THEN "result"
  ELSE "pending"

GatherCallback(t) ==
  /\ NextHandle(CbHandle(t))
  /\ LET o == GatherOuter(gather, tasks[t].result)
     IN  /\ gather' = [gather EXCEPT !.nfinished = @ + 1, !.outer = o]
         /\ ready' = IF o # gather.outer THEN Append(Tail(ready), MainHandle) ELSE Tail(ready)
  /\ UNCHANGED <<cfgVars, mainVars, fetchVars, sem, tasks, running, envVars>>

\* lines 218-221: main resumes from the gather; on a result it prints
\* "Download completed.", disconnects and returns; on an exception it raises.
\* A CancelledError (thrown in by a cancel that found the gather done, or the
\* gather's own) ends main cancelled, which asyncio.run turns into
\* KeyboardInterrupt after a SIGINT.
MainResume ==
  /\ NextHandle(MainHandle)
  /\ mpc = "gather_wait"
  /\ ready' = Tail(ready)
  /\ IF interrupt # "main_must_cancel" /\ gather.outer = "result"
       THEN DisconnectAndReturn("completed")
       ELSE /\ mpc' = "main_done"
            /\ mres' = IF interrupt = "main_must_cancel" \/ gather.outer = "cancelled"
                         THEN "interrupted" ELSE "raised"
            /\ UNCHANGED <<printed, client, disconnects>>
  /\ UNCHANGED <<cfgVars, args, exitCode, fetchVars, sem, tasks, running, gather,
                 errLog, dirExists, disk>>

\* asyncio.run, after main ended: cancel every task that is not done (in the
\* order of a set), then run the loop until they are
RunnerCancel(t) ==
  /\ mpc \in {"main_done", "cancelling"}
  /\ running = 0
  /\ t \in ToCancel
  /\ SetBatch(CancelTask(Batch, t))
  /\ mpc' = "cancelling"
  /\ UNCHANGED <<cfgVars, args, mres, client, disconnects, exitCode, fetchVars,
                 running, gather, envVars>>

\* lines 223-227 and the interpreter: the exit code of the process
ExitCodeOf(r) == IF r \in {"returned", "interrupted"} THEN 0 ELSE 1

\* lines 226-227: KeyboardInterrupt is caught and reported
ProcessExit ==
  /\ mpc \in {"main_done", "cancelling"}
  /\ running = 0
  /\ AllTerminal
  /\ exitCode' = ExitCodeOf(mres)
  /\ printed' = IF mres = "interrupted" THEN printed \cup {"interrupted"} ELSE printed
  /\ mpc' = "exited"
  /\ UNCHANGED <<cfgVars, args, mres, client, disconnects, fetchVars, batchVars,
                 errLog, dirExists, disk>>

\* ------------------------------------------- download_media_message(t)
\* line 69, first step of the task: sem.acquire() takes a slot or starts to wait
TaskStart(t) ==
  /\ NextHandle(TaskHandle(t))
  /\ tasks[t].pc = "created"
  /\ LET B == [Batch EXCEPT !.ready = Tail(@)]
     IN  IF tasks[t].mustCancel
           THEN /\ SetBatch([B EXCEPT !.tasks[t].pc = "done",
                                      !.tasks[t].result = "Cancelled",
                                      !.ready = Append(@, CbHandle(t))])
                /\ running' = 0
           ELSE IF ~Locked(B)
             THEN /\ SetBatch([B EXCEPT !.value = @ - 1,
                                        !.tasks[t].pc = "check_media",
                                        !.tasks[t].slot = TRUE])
                  /\ running' = t
             ELSE /\ SetBatch([B EXCEPT !.waiters = Append(@, t),
                                        !.tasks[t].pc = "waiting"])
                  /\ running' = 0
  /\ UNCHANGED <<cfgVars, mainVars, fetchVars, gather, envVars>>

\* line 69: acquire() resumes after `await fut` (granted, or cancelled)
TaskWake(t) ==
  /\ NextHandle(TaskHandle(t))
  /\ tasks[t].pc \in {"granted", "wait_cancelled"}
  /\ LET B == [Batch EXCEPT !.ready = Tail(@), !.waiters = RemoveWaiter(@, t)]
         Gone(X) == [X EXCEPT !.tasks[t].pc = "done", !.tasks[t].result = "Cancelled",
                              !.tasks[t].slot = FALSE, !.ready = Append(@, CbHandle(t))]
     IN  IF tasks[t].pc = "wait_cancelled"
           THEN /\ SetBatch(Gone(WakeWhileFree(B)))
                /\ running' = 0
           ELSE IF tasks[t].mustCancel
             THEN /\ SetBatch(Gone(WakeWhileFree([B EXCEPT !.value = @ + 1])))
                  /\ running' = 0
             ELSE /\ SetBatch([WakeWhileFree(B) EXCEPT !.tasks[t].pc = "check_media"])
                  /\ running' = t
  /\ UNCHANGED <<cfgVars, mainVars, fetchVars, gather, envVars>>

\* faulty variant of CheckMedia: no early return for a message without media
CheckMediaNoReturn(t) ==
  /\ running = t
  /\ tasks[t].pc = "check_media"
  /\ tasks' = [tasks EXCEPT ![t].pc = "resolve_name"]
  /\ UNCHANGED <<cfgVars, mainVars, fetchVars, sem, ready, running, gather, envVars>>

\* lines 70-72
CheckMedia(t) ==
  /\ running = t
  /\ tasks[t].pc = "check_media"
  /\ tasks' = IF HasMedia(tasks[t].msg)
                THEN [tasks EXCEPT ![t].pc = "resolve_name"]
                ELSE [tasks EXCEPT ![t].pc = "release", ![t].result = "Succeeded"]
  /\ UNCHANGED <<cfgVars, mainVars, fetchVars, sem, ready, running, gather, envVars>>

\* lines 74-88
ResolveName(t) ==
  /\ running = t
  /\ tasks[t].pc = "resolve_name"
  /\ tasks' = [tasks EXCEPT ![t].file_name = FileName(tasks[t].msg, tasks[t].index),
                            ![t].pc = "makedirs"]
  /\ UNCHANGED <<cfgVars, mainVars, fetchVars, sem, ready, running, gather, envVars>>

\* lines 90-92: os.makedirs(exist_ok=True) may raise while the directory is absent
MakeDirs(t) ==
  /\ running = t
  /\ tasks[t].pc = "makedirs"
  /\ \E ok \in BOOLEAN :
       IF ok \/ dirExists
         THEN /\ dirExists' = TRUE
              /\ tasks' = [tasks EXCEPT ![t].pc = "open_bar"]
         ELSE /\ dirExists' = dirExists
              /\ tasks' = [tasks EXCEPT ![t].pc = "release", ![t].result = "Raised",
                                        ![t].fault = "makedirs"]
  /\ UNCHANGED <<cfgVars, mainVars, fetchVars, sem, ready, running, gather,
                 printed, errLog, disk>>

PathOf(t) == FilePath(tasks[t].msg, tasks[t].index)

\* lines 94-117: open the progress bar, call client.download_media, which opens
\* the destination file for writing before its first request, and suspends; a
\* cancel requested during this step cancels the awaited future at once
StartDownload(t) ==
  /\ running = t
  /\ tasks[t].pc = "open_bar"
  /\ IF tasks[t].mustCancel
       THEN /\ tasks' = [tasks EXCEPT ![t].pbar = "open", ![t].pc = "dl_cancelled",
                                      ![t].mustCancel = FALSE]
            /\ ready' = Append(ready, TaskHandle(t))
       ELSE /\ tasks' = [tasks EXCEPT ![t].pbar = "open", ![t].pc = "downloading"]
            /\ ready' = ready
  /\ disk' = (PathOf(t) :> "partial") @@ disk
  /\ running' = 0
  /\ UNCHANGED <<cfgVars, mainVars, fetchVars, sem, gather, printed, errLog, dirExists>>

\* the transport is served by the loop while main waits or the loop is drained
TransportRuns ==
  /\ running = 0
  /\ \/ mpc = "gather_wait"
     \/ mpc = "cancelling" /\ ToCancel = {}

\* the transport finishes the transfer, or fails with a transport error
TransportDone(t) ==
  /\ TransportRuns
  /\ tasks[t].pc = "downloading"
  /\ \E ok \in BOOLEAN :
       /\ tasks' = [tasks EXCEPT ![t].pc = IF ok THEN "dl_ok" ELSE "dl_err",
                                 ![t].fault = IF ok THEN @ ELSE "transport"]
       /\ disk' = IF ok THEN (PathOf(t) :> "complete") @@ disk ELSE disk
  /\ ready' = Append(ready, TaskHandle(t))
  /\ UNCHANGED <<cfgVars, mainVars, fetchVars, sem, running, gather, printed, errLog, dirExists>>

\* lines 112-118: the await of download_media returns, raises or is cancelled
TaskResume(t) ==
  /\ NextHandle(TaskHandle(t))
  /\ tasks[t].pc \in {"dl_ok", "dl_err", "dl_cancelled"}
  /\ ready' = Tail(ready)
  /\ running' = t
  /\ tasks' =
       IF tasks[t].mustCancel \/ tasks[t].pc = "dl_cancelled"
         THEN [tasks EXCEPT ![t].pc = "finally", ![t].result = "Cancelled"]
       ELSE IF tasks[t].pc = "dl_err"
         THEN [tasks EXCEPT ![t].pc = "except"]
         ELSE [tasks EXCEPT ![t].pc = "finally", ![t].result = "Succeeded"]
  /\ UNCHANGED <<cfgVars, mainVars, fetchVars, sem, gather, envVars>>

\* faulty variant of ExceptHandler: the handler prints and re-raises
ExceptHandlerReraise(t) ==
  /\ running = t
  /\ tasks[t].pc = "except"
  /\ errLog' = errLog \cup {tasks[t].msg.id}
  /\ tasks' = [tasks EXCEPT ![t].pc = "finally", ![t].result = "Raised"]
  /\ UNCHANGED <<cfgVars, mainVars, fetchVars, sem, ready, running, gather,
                 printed, dirExists, disk>>

\* faulty variant of ExceptHandler: the handler also removes the partial file
ExceptHandlerRemoveFile(t) ==
  /\ running = t
  /\ tasks[t].pc = "except"
  /\ errLog' = errLog \cup {tasks[t].msg.id}
  /\ tasks' = [tasks EXCEPT ![t].pc = "finally", ![t].result = "Failed"]
  /\ disk' = [p \in DOMAIN disk \ {PathOf(t)} |-> disk[p]]
  /\ UNCHANGED <<cfgVars, mainVars, fetchVars, sem, ready, running, gather,
                 printed, dirExists>>

\* lines 118-120: except Exception: clear the bar, print the diagnostic
ExceptHandler(t) ==
  /\ running = t
  /\ tasks[t].pc = "except"
  /\ errLog' = errLog \cup {tasks[t].msg.id}
  /\ tasks' = [tasks EXCEPT ![t].pc = "finally", ![t].result = "Failed"]
  /\ UNCHANGED <<cfgVars, mainVars, fetchVars, sem, ready, running, gather,
                 printed, dirExists, disk>>

\* lines 121-122: finally: pbar.close()
FinallyClose(t) ==
  /\ running = t
  /\ tasks[t].pc = "finally"
  /\ tasks' = [tasks EXCEPT ![t].pbar = "closed", ![t].pc = "release"]
  /\ UNCHANGED <<cfgVars, mainVars, fetchVars, sem, ready, running, gather, envVars>>

\* Task.__step when the coroutine ends: a return with a cancel still requested
\* makes the task cancelled; an exception is kept
TaskOutcome(T) ==
  IF T.mustCancel /\ T.result \in {"Succeeded", "Failed"} THEN "Cancelled" ELSE T.result

\* faulty variant of ExitBlock: acquire/release without a finally, so an exception or a
\* cancellation leaves the block without releasing
ExitBlockLeakOnError(t) ==
  /\ running = t
  /\ tasks[t].pc = "release"
  /\ LET B == IF tasks[t].result \in {"Raised", "Cancelled"} THEN Batch ELSE SemRelease(Batch)
     IN  SetBatch([B EXCEPT !.tasks[t].pc = "done",
                            !.tasks[t].result = TaskOutcome(tasks[t]),
                            !.tasks[t].slot = FALSE,
                            !.ready = Append(@, CbHandle(t))])
  /\ running' = 0
  /\ UNCHANGED <<cfgVars, mainVars, fetchVars, gather, envVars>>

\* line 69: leaving `async with sem` by any exit releases the slot; the task ends
ExitBlock(t) ==
  /\ running = t
  /\ tasks[t].pc = "release"
  /\ SetBatch([SemRelease(Batch) EXCEPT !.tasks[t].pc = "done",
                                        !.tasks[t].result = TaskOutcome(tasks[t]),
                                        !.tasks[t].slot = FALSE,
                                        !.ready = Append(@, CbHandle(t))])
  /\ running' = 0
  /\ UNCHANGED <<cfgVars, mainVars, fetchVars, gather, envVars>>

\* ------------------------------------- the naming functions on their own
\* Two different windowed items (positions i < j of a window that starts at
\* `start`) with any messages: lines 216 and 74-92 applied to both.
ProbeStarts == {0, 10, 998, 9998, 99998}
ProbePositions == {1, 2, 3, 9001, 9002}
ProbeMessages ==
  {[id |-> 1, kind |-> "doc", name |-> n] : n \in {"a", "0_a", "0a", ""}}
    \cup {[id |-> k, kind |-> "photo", name |-> ""] : k \in {1, 10}}

InitNaming ==
  /\ api_id = 12345678
  /\ api_hash = "hash"
  /\ \E st \in ProbeStarts, i \in ProbePositions, j \in ProbePositions,
        m1 \in ProbeMessages, m2 \in ProbeMessages :
       /\ i < j
       /\ probe = [pc |-> "input", start |-> st, i |-> i, j |-> j, m1 |-> m1, m2 |-> m2,
                   path1 |-> "", path2 |-> ""]
  /\ bars = <<>>
  /\ InitProgram

ComputeNames ==
  /\ probe.pc = "input"
  /\ probe' = [probe EXCEPT
                 !.pc = "named",
                 !.path1 = FilePath(probe.m1, TaskIndex(probe.start, probe.i)),
                 !.path2 = FilePath(probe.m2, TaskIndex(probe.start, probe.j))]
  /\ UNCHANGED <<api_id, api_hash, interrupt, bars, mainVars, fetchVars, batchVars, envVars>>

NextNaming == ComputeNames

SpecNaming == InitNaming /\ [][NextNaming]_vars

\* ------------------------------------ the progress callback on its own
\* lines 94-100: total_size, None (<<>>) unless the message is a document
TotalSize(m) == IF HasDocument(m) THEN <<DocumentSize(m)>> ELSE <<>>

\* lines 102-103: the bar tqdm(total=total_size) with n = 0, and prev_bytes = 0;
\* total0, last, firstTotal and lastTotal record what the bar was opened with
\* and what the callback was called with
OpenBar(m) ==
  [total |-> TotalSize(m), n |-> 0, prev_bytes |-> 0,
   total0 |-> TotalSize(m), last |-> -1, firstTotal |-> <<>>, lastTotal |-> -1]

\* faulty variant of progress_callback: the bar is advanced by `current`
progress_callback_absolute(b, current, total) ==
  LET b1 == IF b.total = <<>> /\ total # 0 THEN [b EXCEPT !.total = <<total>>] ELSE b
  IN  [b1 EXCEPT !.n = @ + current, !.prev_bytes = current]

\* lines 105-110: progress_callback(current, total) of the task that owns b
progress_callback(b, current, total) ==
  LET b1 == IF b.total = <<>> /\ total # 0 THEN [b EXCEPT !.total = <<total>>] ELSE b
      b2 == [b1 EXCEPT !.n = @ + (current - b.prev_bytes)]
  IN  [b2 EXCEPT !.prev_bytes = current]

\* two tasks have opened their bars; the transport has called neither callback
InitProgress ==
  /\ api_id = 12345678
  /\ api_hash = "hash"
  /\ probe = NoProbe
  /\ \E k1 \in {"doc", "photo"}, k2 \in {"doc", "photo"} :
       bars = <<OpenBar(Record(1, k1)), OpenBar(Record(2, k2))>>
  /\ InitProgram

\* the transport reports progress to the callback of task t
ProgressCallback ==
  /\ \E t \in 1..Len(bars), current \in 0..MaxBytes, total \in 0..MaxBytes :
       bars' = [bars EXCEPT ![t] =
                  [progress_callback(@, current, total) EXCEPT
                     !.last = current,
                     !.firstTotal = IF @ = <<>> /\ total # 0 THEN <<total>> ELSE @,
                     !.lastTotal = total]]
  /\ UNCHANGED <<api_id, api_hash, probe, interrupt, mainVars, fetchVars, batchVars, envVars>>

NextProgress == ProgressCallback

SpecProgress == InitProgress /\ [][NextProgress]_vars

\* ------------------------------------------------- the batch on its own
\* main() at line 212 with `msgs` as the windowed list (nothing skipped, no
\* limit) and concurrency n, after a walk in which every record had media
AtSemaphore(msgs, n) ==
  /\ api_id = 12345678
  /\ api_hash = "hash"
  /\ probe = NoProbe
  /\ bars = <<>>
  /\ interrupt = "none"
  /\ args = [concurrency |-> n, skip |-> 0, limit |-> <<>>]
  /\ mpc = "make_semaphore"
  /\ mres = "none"
  /\ client = "started"
  /\ disconnects = 0
  /\ exitCode = -1
  /\ fetched = Len(msgs)
  /\ messages = msgs
  /\ unwindowed = msgs
  /\ total_messages = Len(msgs)
  /\ start = 0
  /\ end = Len(msgs)
  /\ total_bytes = SumSeq([i \in 1..Len(msgs) |-> get_media_size(msgs[i])])
  /\ sem = NoSem
  /\ tasks = NoTasks
  /\ ready = <<>>
  /\ running = 0
  /\ gather = NewGather
  /\ printed = {"fetching", "total_size", "found"}
  /\ errLog = {}
  /\ dirExists = FALSE
  /\ disk = <<>>

\* the lists of 1..MaxHist records with ids 1, 2, ... and kinds from K
Histories(K) ==
  UNION {{[i \in 1..n |-> Record(i, f[i])] : f \in [1..n -> K]} : n \in 1..MaxHist}

\* _GatheringFuture.cancel(): cancel every child that is not done, in order
RECURSIVE CancelChildren(_, _)
CancelChildren(B, t) ==
  IF t > Len(B.tasks) THEN B
  ELSE CancelChildren(IF B.tasks[t].pc = "done" THEN B ELSE CancelTask(B, t), t + 1)

\* SIGINT while main waits in the gather (asyncio.run's handler, at any
\* bytecode boundary): main_task.cancel() cancels the awaited gather, that is
\* its children; when the gather is done or no child is left to cancel, the
\* CancelledError is thrown into main when it resumes
Interrupt ==
  /\ mpc = "gather_wait"
  /\ interrupt = "none"
  /\ IF gather.outer = "pending" /\ ~AllTerminal
       THEN /\ interrupt' = "gather_cancelled"
            /\ SetBatch(CancelChildren(Batch, 1))
       ELSE /\ interrupt' = "main_must_cancel"
            /\ UNCHANGED <<sem, tasks, ready>>
  /\ UNCHANGED <<api_id, api_hash, probe, bars, mainVars, fetchVars, running, gather, envVars>>

DoTaskStart == \E t \in TaskIds : TaskStart(t)
DoTaskWake == \E t \in TaskIds : TaskWake(t)
DoCheckMedia == \E t \in TaskIds : CheckMedia(t)
DoResolveName == \E t \in TaskIds : ResolveName(t)
DoMakeDirs == \E t \in TaskIds : MakeDirs(t)
DoStartDownload == \E t \in TaskIds : StartDownload(t)
DoTransportDone == \E t \in TaskIds : TransportDone(t)
DoTaskResume == \E t \in TaskIds : TaskResume(t)
DoExceptHandler == \E t \in TaskIds : ExceptHandler(t)
DoFinallyClose == \E t \in TaskIds : FinallyClose(t)
DoExitBlock == \E t \in TaskIds : ExitBlock(t)
DoGatherCallback == \E t \in TaskIds : GatherCallback(t)
DoRunnerCancel == \E t \in TaskIds : RunnerCancel(t)

Next ==
  \/ ParseArgs \/ CheckCredentials \/ Connect \/ GetEntity
  \/ FetchNext \/ FetchFail \/ FetchEnd \/ ApplyWindow \/ Preflight
  \/ MakeSemaphore \/ LaunchTasks \/ AwaitGather \/ MainResume \/ ProcessExit
  \/ DoTaskStart \/ DoTaskWake \/ DoCheckMedia \/ DoResolveName \/ DoMakeDirs
  \/ DoStartDownload \/ DoTransportDone \/ DoTaskResume
  \/ DoExceptHandler \/ DoFinallyClose \/ DoExitBlock
  \/ DoGatherCallback \/ DoRunnerCancel

Spec == Init /\ [][Next]_vars

\* lines 212-227 alone
NextBatch ==
  \/ MakeSemaphore
  \/ LaunchTasks
  \/ AwaitGather
  \/ MainResume
  \/ ProcessExit
  \/ DoTaskStart
  \/ DoTaskWake
  \/ DoCheckMedia
  \/ DoResolveName
  \/ DoMakeDirs
  \/ DoStartDownload
  \/ DoTransportDone
  \/ DoTaskResume
  \/ DoExceptHandler
  \/ DoFinallyClose
  \/ DoExitBlock
  \/ DoGatherCallback
  \/ DoRunnerCancel

\* the batch with a terminal interrupt at any moment of it, fairly scheduled
InitInterrupt ==
  \E msgs \in Histories({"doc", "photo"}), n \in 1..MaxConc : AtSemaphore(msgs, n)
NextInterrupt == NextBatch \/ Interrupt
SpecInterrupt == InitInterrupt /\ [][NextInterrupt]_vars /\ WF_vars(NextInterrupt)

\* download_media_message as a function of any message: the batch over lists in
\* which at least one message carries no media
InitDirect ==
  \E msgs \in Histories(MsgKinds), n \in 1..MaxConc :
    /\ \E i \in 1..Len(msgs) : ~HasMedia(msgs[i])
    /\ AtSemaphore(msgs, n)
SpecDirect == InitDirect /\ [][NextBatch]_vars

\* the same program under a fair schedule: the loop keeps dispatching ready
\* handles and every transfer the transport started ends, well or badly
SpecFair == Spec /\ WF_vars(Next)

\* ------------------------------------------------------------------ claims
\* positions of a task inside the `async with sem` block
BlockPcs ==
  {"check_media", "resolve_name", "makedirs", "open_bar", "downloading",
   "dl_ok", "dl_err", "dl_cancelled", "except", "finally", "release"}
\* positions where it resolves the name, creates the directory or downloads
WorkPcs == {"resolve_name", "makedirs", "open_bar", "downloading", "dl_ok", "dl_err", "dl_cancelled"}
InBlock == {t \in TaskIds : tasks[t].pc \in BlockPcs}
Holders == {t \in TaskIds : tasks[t].slot}
WithResult(r) == {t \in TaskIds : Terminal(t) /\ tasks[t].result = r}
WithFault(f) == {t \in TaskIds : tasks[t].fault = f}
BatchCompleted == "completed" \in printed
Exited == exitCode # -1

\* C1: for N >= 1 the tasks inside the `async with sem` block never outnumber the
\* slots taken from the gate, which never outnumber N; and a task is at its name
\* resolution, directory creation or download only while it holds a slot.
C1_AtMostNInFlight ==
  args.concurrency >= 1 =>
    /\ sem.value >= 0
    /\ Cardinality(InBlock) <= args.concurrency - sem.value
    /\ Cardinality(InBlock) <= args.concurrency
    /\ \A t \in TaskIds : tasks[t].pc \in WorkPcs => sem.made /\ tasks[t].slot

\* C1 witness: the gate is full (N = 2 tasks downloading) and a third task waits
C1_Witness ==
  /\ args.concurrency = 2
  /\ Cardinality({t \in TaskIds : tasks[t].pc = "downloading"}) = 2
  /\ \E t \in TaskIds : tasks[t].pc = "waiting"

\* C2: whenever main is past `await asyncio.gather(*tasks)` (it printed, disconnected,
\* returned or raised), every task it launched is terminal.
C2_JoinBeforeReturn ==
  (tasks # <<>> /\ mpc \in {"main_done", "cancelling", "exited"}) => AllTerminal

\* C3: when the batch completes there is exactly one task per windowed item, in
\* order, each terminal with one outcome, Succeeded or Failed, and the join has
\* counted exactly L task endings.
C3_OneOutcomePerItem ==
  /\ Len(tasks) \in {0, Len(messages)}
  /\ \A t \in TaskIds : tasks[t].msg = messages[t]
  /\ gather.nfinished <= Len(tasks)
  /\ BatchCompleted =>
       /\ Len(tasks) = Len(messages)
       /\ gather.nfinished = Len(messages)
       /\ \A t \in TaskIds : Terminal(t) /\ tasks[t].result \in {"Succeeded", "Failed"}
       /\ Cardinality(WithResult("Succeeded")) + Cardinality(WithResult("Failed")) = Len(messages)

\* C3 witness: a completed batch of three items, one of them failed
C3_Witness ==
  /\ BatchCompleted
  /\ Len(messages) = 3
  /\ Cardinality(WithResult("Failed")) = 1
  /\ Cardinality(WithResult("Succeeded")) = 2

\* C4: transport failures alone never cancel a task or abort the join; and when
\* the run ends after download_media failed for exactly one of M items (and
\* nothing else went wrong), that item is Failed, the other M-1 are Succeeded, the
\* batch completed and the exit code is 0.
C4_FailureIsolated ==
  (tasks # <<>> /\ WithFault("makedirs") = {}) =>
    /\ \A t \in TaskIds : ~tasks[t].cancelReq /\ tasks[t].result # "Cancelled"
    /\ gather.outer \notin {"exception", "cancelled"}
    /\ (Exited /\ Cardinality(WithFault("transport")) = 1) =>
         /\ BatchCompleted
         /\ exitCode = 0
         /\ WithResult("Failed") = WithFault("transport")
         /\ Cardinality(WithResult("Succeeded")) = Len(messages) - 1

\* C4 witness: a run of three items has ended, the middle one hit a transport error
C4_Witness ==
  /\ Exited
  /\ Len(tasks) = 3
  /\ WithFault("transport") = {2}
  /\ WithFault("makedirs") = {}

\* C5: free slots plus slots held equal N in every state, a terminal task holds
\* none, and once every task is terminal the gate is back at N.
C5_SlotsConserved ==
  sem.made =>
    /\ sem.value + Cardinality(Holders) = args.concurrency
    /\ sem.value >= 0 /\ sem.value <= args.concurrency
    /\ \A t \in TaskIds : Terminal(t) => ~tasks[t].slot
    /\ (tasks # <<>> /\ AllTerminal) => sem.value = args.concurrency

\* C5 witness: every exit happened in one batch: a task raised, a task was
\* cancelled during its transfer, and all slots are back
C5_Witness ==
  /\ tasks # <<>> /\ AllTerminal
  /\ sem.value = args.concurrency
  /\ \E t \in TaskIds : tasks[t].result = "Raised"
  /\ \E t \in TaskIds : tasks[t].result = "Cancelled" /\ tasks[t].pbar = "closed"

\* line 187 ran: the window was applied (the list was not empty before it)
Windowed == total_messages > 0

\* C6: for skip >= 0 and limit absent or >= 1, the list handed on is the
\* contiguous run of the full list from 0-based index skip, of length
\* min(limit, L - skip) (L - skip without a limit), 0 when skip >= L, in order.
C6_Window ==
  (Windowed /\ args.skip >= 0 /\ (args.limit = <<>> \/ args.limit[1] >= 1)) =>
    LET L == Len(unwindowed)
        s == args.skip
        n == IF s >= L THEN 0
             ELSE IF args.limit # <<>> THEN Min({args.limit[1], L - s}) ELSE L - s
    IN  /\ Len(messages) = n
        /\ \A i \in 1..n : messages[i] = unwindowed[s + i]
        /\ start = s
        /\ total_messages = L

\* C6 witness: a limit that reaches past the end is clamped (skip >= 1, some items left)
C6_Witness ==
  /\ Windowed
  /\ args.limit # <<>>
  /\ args.skip >= 1
  /\ args.skip + args.limit[1] > Len(unwindowed)
  /\ Len(messages) >= 1

\* %04d of a rank, written out by width
ExpectedPrefix(r) ==
  (CASE r < 10 -> "000" [] r < 100 -> "00" [] r < 1000 -> "0" [] OTHER -> "")
    \o DecStr(r) \o "_"

\* C7: in every state, whatever the order of admission and completion, the task
\* at window position t (1-based) carries index skip + (t-1) + 1, that is the
\* 1-based rank of its message in the full list, and its file name, once
\* resolved, is that rank zero-padded to width 4, "_", and the base name.
C7_RankPrefix ==
  \A t \in TaskIds :
    LET r == args.skip + (t - 1) + 1
    IN  /\ tasks[t].index = r
        /\ r <= Len(unwindowed)
        /\ unwindowed[r] = tasks[t].msg
        /\ tasks[t].file_name # "" =>
             tasks[t].file_name = ExpectedPrefix(r) \o BaseName(tasks[t].msg)

\* C7 witness: with skip >= 1, a later task has ended while an earlier one, its
\* name resolved, is still running
C7_Witness ==
  /\ args.skip >= 1
  /\ \E t1 \in TaskIds, t2 \in TaskIds :
       /\ t1 < t2
       /\ Terminal(t2) /\ tasks[t2].file_name # ""
       /\ ~Terminal(t1) /\ tasks[t1].file_name # ""

\* C8: the file paths of two different windowed items differ, for any suggested
\* names and message ids and for ranks on both sides of 9999; and in a batch no
\* two tasks have the same path.
C8_DistinctPaths ==
  /\ probe.pc = "named" => probe.path1 # probe.path2
  /\ \A t1 \in TaskIds, t2 \in TaskIds :
       (t1 # t2 /\ tasks[t1].file_name # "" /\ tasks[t2].file_name # "") =>
         PathOf(t1) # PathOf(t2)

\* C8 witness: ranks 1000 and 10000 with names "0_a" and "a" were both named
C8_Witness ==
  /\ probe.pc = "named"
  /\ TaskIndex(probe.start, probe.i) = 1000
  /\ TaskIndex(probe.start, probe.j) = 10000
  /\ probe.m1.name = "0_a"
  /\ probe.m2.name = "a"
  /\ probe.path1 = "downloads/1000_0_a"
  /\ probe.path2 = "downloads/10000_a"

\* C9: with a concurrency below 1 nothing is started: no client, no fetch, no
\* gate, no task.
C9_RejectBadConcurrency ==
  (mpc # "parse_args" /\ args.concurrency < 1) =>
    (client = "none" /\ fetched = 0 /\ ~sem.made /\ tasks = <<>>)

PreconditionErrors ==
  {"error_credentials", "error_connect", "error_entity_RPCError",
   "error_entity_ValueError", "error_entity_Exception", "error_fetch"}

\* C10: the process ends non-zero after every precondition failure and zero after
\* the batch completed.
C10_ExitCodes ==
  Exited =>
    /\ (printed \cap PreconditionErrors # {}) => exitCode # 0
    /\ BatchCompleted => exitCode = 0

EntityErrors == {"error_entity_RPCError", "error_entity_ValueError", "error_entity_Exception"}

\* C11: once the history walk has raised, whatever it had yielded, the list is
\* never windowed, no semaphore is made and no task is created, and main has
\* returned after disconnecting; once resolving the chat has failed, no message
\* was ever fetched either.
C11_FetchErrorFatal ==
  /\ "error_fetch" \in printed =>
       /\ total_messages = 0 /\ unwindowed = <<>> /\ total_bytes = -1
       /\ ~sem.made /\ tasks = <<>> /\ ready = <<>> /\ disk = <<>>
       /\ mpc \in {"main_done", "exited"} /\ mres = "returned"
  /\ printed \cap EntityErrors # {} =>
       /\ fetched = 0 /\ messages = <<>>
       /\ ~sem.made /\ tasks = <<>>
       /\ mpc \in {"main_done", "exited"} /\ mres = "returned"

\* C11 witness: the walk raised after two media messages were collected, and
\* the process has ended
C11_Witness ==
  /\ "error_fetch" \in printed
  /\ Len(messages) = 2
  /\ Exited

\* C12: with N >= 1, under a fair schedule in which every started transfer
\* ends, a launched batch leads to every task terminal with an outcome of its
\* own (Succeeded or Failed, so every waiter got its slot), "Download
\* completed." printed and the process ended.
C12_BatchCompletes ==
  (tasks # <<>> /\ args.concurrency >= 1) ~>
    /\ Exited
    /\ BatchCompleted
    /\ \A t \in TaskIds : tasks[t].result \in {"Succeeded", "Failed"}

\* the size hint of a message: a document's size, a photo's largest resolution,
\* 0 when there is none
SizeHint(m) ==
  CASE m.kind = "doc" -> DocumentSize(m)
    [] m.kind = "photo" /\ PhotoSizes(m) # <<>> ->
         CHOOSE x \in {PhotoSizes(m)[i] : i \in 1..Len(PhotoSizes(m))} :
           \A i \in 1..Len(PhotoSizes(m)) : PhotoSizes(m)[i] <= x
    [] OTHER -> 0

\* C13: once computed, the pre-flight total is the sum of the size hints of the
\* messages at 0-based positions skip .. skip + (window length) - 1 of the full
\* list, and whenever a semaphore exists or a task was created the total had
\* been computed and printed.
C13_PreflightTotal ==
  /\ total_bytes # -1 =>
       /\ total_bytes =
            SumSeq([i \in 1..Len(messages) |-> SizeHint(unwindowed[args.skip + i])])
       /\ "total_size" \in printed
  /\ (sem.made \/ tasks # <<>>) => total_bytes # -1

\* C13 witness: the total was printed for a window that starts after the first
\* message and holds a photo without sizes, so it differs from the full sum, and
\* neither the semaphore nor a task exists yet
C13_Witness ==
  /\ total_bytes # -1
  /\ ~sem.made /\ tasks = <<>>
  /\ args.skip >= 1
  /\ \E i \in 1..Len(messages) : messages[i].kind = "photo" /\ messages[i].id = 2
  /\ \E i \in 1..Len(messages) : messages[i].kind = "doc"
  /\ total_bytes # SumSeq([i \in 1..Len(unwindowed) |-> SizeHint(unwindowed[i])])

\* still inside sem.acquire(), or not started
GatePcs == {"created", "waiting", "wait_cancelled", "granted"}

\* C14: after a SIGINT during the batch (a) no task that had not entered the
\* block enters it (its acquire never returns) and no transfer goes on, and
\* once the children were cancelled no transfer is left running; (b) every task the interrupt
\* cancelled ends without a result of its own and without a slot, and when the
\* process has ended all tasks are terminal and all N slots are free; (c) no
\* file is ever removed or truncated, and a task stopped during its transfer
\* leaves its file on disk; (d) the process ends.
C14_InterruptStops ==
  /\ [](/\ interrupt = "gather_cancelled" =>
             \A t \in TaskIds : /\ (Terminal(t) \/ tasks[t].cancelReq)
                                 /\ tasks[t].pc # "downloading"
        /\ \A t \in TaskIds :
             (Terminal(t) /\ tasks[t].cancelReq) =>
               /\ tasks[t].result \in {"Cancelled", "Raised"}
               /\ ~tasks[t].slot
               /\ tasks[t].pbar = "closed" => PathOf(t) \in DOMAIN disk
        /\ (interrupt # "none" /\ Exited) =>
             /\ AllTerminal
             /\ sem.value = args.concurrency
             /\ Holders = {})
  /\ [][interrupt # "none" =>
          \A t \in TaskIds :
            /\ tasks[t].pc \in GatePcs => tasks'[t].pc \in GatePcs \cup {"done"}
            /\ tasks'[t].pc = "downloading" => tasks[t].pc = "downloading"]_vars
  /\ [][\A p \in DOMAIN disk :
          /\ p \in DOMAIN disk'
          /\ disk[p] = "complete" => disk'[p] = "complete"]_vars
  /\ (interrupt # "none") ~> Exited

\* the tasks whose message carries no media
NoMediaTasks == {t \in TaskIds : ~HasMedia(tasks[t].msg)}

\* C15: a task whose message has no media never gets past the check of line
\* 71: no name is resolved, no bar opened, no error reported, nothing raised,
\* no file at its path; unless cancelled it ends Succeeded with its slot given
\* back; and a batch of such tasks only creates no directory and no file and
\* ends completed with exit code 0.
C15_NoMediaNoOp ==
  /\ \A t \in NoMediaTasks :
       /\ tasks[t].pc \in GatePcs \cup {"check_media", "release", "done"}
       /\ tasks[t].file_name = "" /\ tasks[t].pbar = "none" /\ tasks[t].fault = "none"
       /\ tasks[t].msg.id \notin errLog
       /\ PathOf(t) \notin DOMAIN disk
       /\ tasks[t].pc = "release" => tasks[t].result = "Succeeded"
       /\ (Terminal(t) /\ ~tasks[t].cancelReq) =>
            tasks[t].result = "Succeeded" /\ ~tasks[t].slot
  /\ (tasks # <<>> /\ NoMediaTasks = TaskIds) =>
       /\ ~dirExists /\ disk = <<>> /\ errLog = {}
       /\ Exited => BatchCompleted /\ exitCode = 0

\* C15 witness: with one slot, the second of three tasks had no media, waited
\* for the slot, ended Succeeded, and the batch completed with both files written
C15_Witness ==
  /\ Exited /\ BatchCompleted
  /\ args.concurrency = 1
  /\ NoMediaTasks = {2}
  /\ WithResult("Succeeded") = {1, 2, 3}
  /\ disk = (PathOf(1) :> "complete") @@ (PathOf(3) :> "complete")

\* C16: with no media message in the history, or a window that selects none,
\* main returns at once: no total is computed, no semaphore made, no task
\* created, no directory or file written, the client is disconnected, and the
\* process ends with exit code 0; and no batch is ever started on an empty list.
C16_EmptyWindow ==
  /\ (printed \cap {"no_media", "no_media_after_window"} # {}) =>
       /\ messages = <<>>
       /\ total_bytes = -1 /\ ~sem.made /\ tasks = <<>> /\ ready = <<>>
       /\ ~dirExists /\ disk = <<>> /\ errLog = {}
       /\ mres = "returned" /\ client = "disconnected"
       /\ Exited => exitCode = 0
  /\ (total_bytes # -1 \/ sem.made) => messages # <<>>

\* C16 witness: a run with media in the history ended after a skip past the end
C16_Witness ==
  /\ Exited
  /\ "no_media_after_window" \in printed
  /\ Len(unwindowed) >= 1
  /\ args.skip >= Len(unwindowed)
  /\ args.limit # <<>>

\* task t, whose transfer failed, is handling the error: the step that raises
\* the error into it, its except and finally clauses, its leaving the block
HandlesTransportError(t) ==
  /\ tasks[t].fault = "transport"
  /\ tasks[t].pc # "done"
  /\ running = t \/ running' = t

\* C17: the file of a task whose transfer failed stays on disk as the transport
\* left it (partial) in every later state; once the task has ended Failed its
\* message id was reported, its bar is closed and its slot released; and the
\* steps in which it handles the error change no file, no directory, no other
\* output and no other task, except that the release hands the slot to a waiter.
C17_NoCleanupOnError ==
  /\ [](\A t \in TaskIds :
          tasks[t].fault = "transport" =>
            /\ PathOf(t) \in DOMAIN disk /\ disk[PathOf(t)] = "partial"
            /\ (Terminal(t) /\ tasks[t].result = "Failed") =>
                 /\ tasks[t].msg.id \in errLog
                 /\ tasks[t].pbar = "closed"
                 /\ ~tasks[t].slot)
  /\ [][\A t \in TaskIds :
          HandlesTransportError(t) =>
            /\ disk' = disk /\ dirExists' = dirExists /\ printed' = printed
            /\ errLog' \subseteq errLog \cup {tasks[t].msg.id}
            /\ \A u \in TaskIds \ {t} :
                 \/ tasks'[u] = tasks[u]
                 \/ /\ tasks[u].pc = "waiting"
                    /\ tasks'[u] = [tasks[u] EXCEPT !.pc = "granted", !.slot = TRUE]]_vars

\* C17 witness: the run ended; task 1 failed in its transfer and its partial file
\* is still there, next to the complete file of task 2, which had waited for
\* the slot task 1 released
C17_Witness ==
  /\ Exited
  /\ args.concurrency = 1
  /\ Len(tasks) = 2
  /\ tasks[1].fault = "transport" /\ tasks[1].result = "Failed"
  /\ tasks[2].result = "Succeeded"
  /\ disk = (PathOf(1) :> "partial") @@ (PathOf(2) :> "complete")
  /\ errLog = {tasks[1].msg.id}

\* C18: for each bar, after any calls of its callback the amount reported (n)
\* and prev_bytes both equal the latest `current` (0 before the first call,
\* whatever the other task's callback did); a total known when the bar was
\* opened is never changed; an unknown one becomes the first non-zero total a
\* callback passed and stays that, and stays unknown while only 0 was passed.
C18_ProgressAccounting ==
  \A t \in 1..Len(bars) :
    LET b == bars[t]
    IN  /\ b.n = (IF b.last = -1 THEN 0 ELSE b.last)
        /\ b.prev_bytes = b.n
        /\ b.total = (IF b.total0 # <<>> THEN b.total0 ELSE b.firstTotal)

\* C18 witness: the first bar, opened without a total, took total 2 from a
\* callback and kept it when a later call passed 3 with current back at 1;
\* the second bar, opened with its document size, was never called
C18_Witness ==
  /\ Len(bars) = 2
  /\ bars[1].total0 = <<>> /\ bars[1].firstTotal = <<2>> /\ bars[1].lastTotal = 3
  /\ bars[1].total = <<2>> /\ bars[1].n = 1
  /\ bars[2].total0 = <<3>> /\ bars[2].last = -1 /\ bars[2].n = 0

\* task t was handed a slot: it is past the gate, or the semaphore has woken it
Admitted(t) ==
  \/ tasks[t].pc \in {"granted", "check_media", "resolve_name"}
  \/ tasks[t].slot
  \/ tasks[t].file_name # ""

\* C19: tasks are created in ascending rank, and in every state a task that was
\* handed a slot has only tasks before it that were handed one too; the tasks
\* still waiting or not started are a tail of the launch order.
C19_AdmissionOrder ==
  /\ \A i \in TaskIds, j \in TaskIds : i < j => tasks[i].index < tasks[j].index
  /\ \A i \in TaskIds, j \in TaskIds : (i < j /\ Admitted(j)) => Admitted(i)
  /\ \A i \in 1..Len(sem.waiters), j \in 1..Len(sem.waiters) :
       i < j => sem.waiters[i] < sem.waiters[j]

\* C19 witness: one slot, three tasks: the first has ended, the second, which
\* had to wait, is transferring, the third still waits
C19_Witness ==
  /\ args.concurrency = 1
  /\ Len(tasks) = 3
  /\ Terminal(1)
  /\ tasks[2].pc = "downloading"
  /\ tasks[3].pc = "waiting"
  /\ sem.waiters = <<3>>

\* main() has ended
MainEnded == mpc \in {"main_done", "cancelling", "exited"}

\* C20: whenever main has ended after the client was created, disconnect was
\* called exactly once; it is never called twice; and in a batch it is called
\* only when every task is terminal.
C20_DisconnectOnce ==
  /\ (MainEnded /\ client # "none") => disconnects = 1
  /\ disconnects <= 1
  /\ (disconnects = 1 /\ tasks # <<>>) => AllTerminal

====
